---- MODULE Spec2Model ----
(***************************************************************************)
(* Model of scripts/build_data.py: the XLSX first-sheet reader             *)
(* (read_first_sheet_rows and its helpers), clean_headers and              *)
(* parse_xlsx_dataset.                                                     *)
(*                                                                         *)
(* A Python str is a sequence of one-character strings; None is a value    *)
(* that is no such sequence.                                               *)
(***************************************************************************)
EXTENDS Integers, Sequences, FiniteSets, TLC

VARIABLES
    stage,           \* position inside read_first_sheet_rows
    archive,         \* the parts of the .xlsx container being read
    error,           \* the exception that ended the call, or "none"
    shared,          \* shared (list of shared strings)
    rows,            \* rows (the matrix being built)
    cells,           \* cells (column index -> value) of the current row element
    cur_col,         \* cur_col of the current row element
    ref,             \* ref: the "r" attribute of the cell element read last
    global_max_col,  \* global_max_col
    placed,          \* history: column and value of every cell of the current row element
    sheetCols,       \* history: every column index given to a cell of the sheet so far
    rowLog,          \* history: one entry per row element scanned
    order,           \* history: the stages of the call, in the order they ran
    nCells,          \* cells read from the sheet so far
    call,            \* which function the behaviour is a call of, and whether it has returned
    headers,         \* clean_headers: the argument
    cleaned,         \* clean_headers: the returned list
    matrix,          \* parse_xlsx_dataset: what read_first_sheet_rows returned to it
    dataset,         \* parse_xlsx_dataset: the returned dataset
    drawRows         \* history: for every record of draws, the matrix row it was built from

rvars == <<stage, archive, error, shared, rows, cells, cur_col, ref, global_max_col,
           placed, sheetCols, rowLog, order, nCells>>
xvars == <<call, headers, cleaned, matrix, dataset, drawRows>>
vars == <<rvars, xvars>>

\* ---------------------------------------------------------------- bounds
MaxRows == 3
MaxCells == 2

\* ---------------------------------------------------------------- text
None == <<"None">>

Letters == <<"A","B","C","D","E","F","G","H","I","J","K","L","M",
             "N","O","P","Q","R","S","T","U","V","W","X","Y","Z">>
UpperSet == {Letters[i] : i \in DOMAIN Letters}
Digits == <<"0","1","2","3","4","5","6","7","8","9">>
DigitSet == {Digits[i] : i \in DOMAIN Digits}
Whitespace == {" "}

Max(a, b) == IF a >= b THEN a ELSE b

LowerLetters == <<"a","b","c","d","e","f","g","h","i","j","k","l","m",
                  "n","o","p","q","r","s","t","u","v","w","x","y","z">>
LowerSet == {LowerLetters[i] : i \in DOMAIN LowerLetters}

UpperChar(ch) ==
    IF ch \in LowerSet THEN Letters[CHOOSE i \in DOMAIN LowerLetters : LowerLetters[i] = ch] ELSE ch
LowerChar(ch) ==
    IF ch \in UpperSet THEN LowerLetters[CHOOSE i \in DOMAIN Letters : Letters[i] = ch] ELSE ch

\* str.upper(), str.lower()
Upper(s) == [i \in DOMAIN s |-> UpperChar(s[i])]
Lower(s) == [i \in DOMAIN s |-> LowerChar(s[i])]

\* ord(ch) - ord("A") + 1 for an upper-case letter
LetterValue(ch) == CHOOSE i \in DOMAIN Letters : Letters[i] = ch
DigitValue(ch) == (CHOOSE i \in DOMAIN Digits : Digits[i] = ch) - 1

RECURSIVE LStrip(_)
LStrip(s) == IF s # <<>> /\ Head(s) \in Whitespace THEN LStrip(Tail(s)) ELSE s

RECURSIVE RStrip(_)
RStrip(s) ==
    IF s # <<>> /\ s[Len(s)] \in Whitespace THEN RStrip(SubSeq(s, 1, Len(s) - 1)) ELSE s

\* str.strip()
Strip(s) == RStrip(LStrip(s))

AllDigits(s) == s # <<>> /\ \A i \in DOMAIN s : s[i] \in DigitSet

RECURSIVE DigitsToNat(_)
DigitsToNat(s) ==
    IF s = <<>> THEN 0
    ELSE 10 * DigitsToNat(SubSeq(s, 1, Len(s) - 1)) + DigitValue(s[Len(s)])

\* int(text): surrounding whitespace and one sign are accepted, anything else
\* but decimal digits is a ValueError.
IntBody(s) == IF s # <<>> /\ Head(s) \in {"-", "+"} THEN Tail(s) ELSE s
IntParses(text) == AllDigits(IntBody(Strip(text)))
IntValue(text) ==
    LET s == Strip(text)
    IN  IF s # <<>> /\ Head(s) = "-" THEN 0 - DigitsToNat(Tail(s))
        ELSE DigitsToNat(IntBody(s))

\* ---------------------------------------------------------------- _col_to_index
RECURSIVE ColAcc(_, _)
ColAcc(col_letters, idx) ==
    IF col_letters = <<>> THEN idx
    ELSE ColAcc(Tail(col_letters), idx * 26 + LetterValue(Head(col_letters)))

\* the same without the final "- 1": a one-based column
_col_to_index_one_based(col_letters) == ColAcc(Upper(col_letters), 0)

_col_to_index(col_letters) == ColAcc(Upper(col_letters), 0) - 1

\* ---------------------------------------------------------------- the cell reference
\* re.match(r"([A-Z]+)(\d+)", ref): group 1 is the run of upper-case letters the
\* reference starts with; the match needs one letter and a digit right after.
RECURSIVE UpperPrefix(_)
UpperPrefix(s) ==
    IF s # <<>> /\ Head(s) \in UpperSet THEN <<Head(s)>> \o UpperPrefix(Tail(s)) ELSE <<>>

RefMatches(r) ==
    LET g == UpperPrefix(r)
    IN  /\ g # <<>>
        /\ Len(r) > Len(g)
        /\ r[Len(g) + 1] \in DigitSet

\* cur_col after lines 167-171
CursorFor(r, cur) ==
    IF r # None /\ r # <<>> /\ RefMatches(r)
    THEN _col_to_index(UpperPrefix(r))
    ELSE cur

\* a cursor that is not advanced after a cell
NextCursorStuck(col_idx) == col_idx

\* "cur_col += 1" after "col_idx = cur_col"
NextCursor(col_idx) == col_idx + 1

\* ---------------------------------------------------------------- the cell value
\* A cell element: r and t are attributes (None when absent), v is the text of its
\* <v> child ("NoNode" when there is no child, None when the child is empty), is_t
\* the text of the first <t> below it (same convention).
NoNode == <<"NoNode">>

SharedCellRaises(c) ==
    /\ c.t = <<"s">>
    /\ c.v # NoNode /\ c.v # None
    /\ ~IntParses(c.v)

CellValue(c, sh) ==
    IF c.t = <<"s">>
    THEN IF c.v # NoNode /\ c.v # None
         THEN LET si == IntValue(c.v)
              IN  IF 0 <= si /\ si < Len(sh) THEN sh[si + 1] ELSE c.v
         ELSE None
    ELSE IF c.t = <<"i","n","l","i","n","e","S","t","r">>
    THEN IF c.is_t # NoNode THEN c.is_t ELSE None
    ELSE IF c.v # NoNode THEN c.v ELSE None

\* ---------------------------------------------------------------- inputs
\* The container: is it a zip at all, the shared-string part, what the workbook
\* and its relationships say about the first sheet, and the worksheet part.
SharedItems == << <<<<"S">>, None, <<"t">>>> >>

Archives ==
    [zip      : {"ok", "corrupt"},
     sst      : {"absent", "malformed", "ok"},
     workbook : {"ok", "nosheet", "norel"},
     sheet    : {"ok", "missing"}]

RefInputs == {None, <<>>, <<"A","7">>, <<"B","1">>, <<"A","B","3">>, <<"b","1">>, <<"C">>}

CellKinds ==
    {[t |-> <<"s">>, v |-> <<"0">>,     is_t |-> NoNode],
     [t |-> <<"s">>, v |-> <<"7">>,     is_t |-> NoNode],
     [t |-> <<"s">>, v |-> <<"x">>,     is_t |-> NoNode],
     [t |-> <<"s">>, v |-> NoNode,      is_t |-> NoNode],
     [t |-> <<"i","n","l","i","n","e","S","t","r">>, v |-> NoNode, is_t |-> <<"7">>],
     [t |-> <<"n">>, v |-> <<"7">>,     is_t |-> NoNode],
     [t |-> None,    v |-> None,        is_t |-> NoNode],
     [t |-> None,    v |-> NoNode,      is_t |-> NoNode]}

CellInputs == {[r |-> a, t |-> k.t, v |-> k.v, is_t |-> k.is_t] : a \in RefInputs, k \in CellKinds}

\* ---------------------------------------------------------------- _parse_shared_strings
RECURSIVE JoinRuns(_)
JoinRuns(runs) ==
    IF runs = <<>> THEN <<>>
    ELSE (IF Head(runs) # None THEN Head(runs) ELSE <<>>) \o JoinRuns(Tail(runs))

_parse_shared_strings(a) ==
    IF a.sst = "absent" THEN <<>>
    ELSE [i \in DOMAIN SharedItems |-> JoinRuns(SharedItems[i])]

\* ---------------------------------------------------------------- read_first_sheet_rows
\* The statements of lines 154-157 in the order they run, then the row loop.
\* the first sheet's path resolved before the shared strings are parsed
StepsPathFirst == <<"open", "path", "shared", "sheet", "scan">>

Steps == <<"open", "shared", "path", "sheet", "scan">>

StepAfter(s) == Steps[(CHOOSE i \in DOMAIN Steps : Steps[i] = s) + 1]

EmptyCells == [i \in {} |-> None]

NoDataset == [i \in {} |-> None]

Init ==
    /\ stage = "open"
    /\ archive \in Archives
    /\ error = "none"
    /\ shared = <<>>
    /\ rows = <<>>
    /\ cells = EmptyCells
    /\ cur_col = 0
    /\ ref = None
    /\ global_max_col = 0
    /\ placed = <<>>
    /\ sheetCols = {}
    /\ rowLog = <<>>
    /\ order = <<>>
    /\ nCells = 0
    /\ call = "read_first_sheet_rows"
    /\ headers = <<>>
    /\ cleaned = <<>>
    /\ matrix = <<>>
    /\ dataset = NoDataset
    /\ drawRows = <<>>

Raise(e) ==
    /\ stage' = "raised"
    /\ error' = e

\* zipfile.ZipFile(xlsx_path)
OpenContainer ==
    /\ UNCHANGED xvars
    /\ stage = "open"
    /\ order' = Append(order, "open")
    /\ IF archive.zip = "corrupt"
       THEN Raise("BadZipFile")
       ELSE stage' = StepAfter("open") /\ UNCHANGED error
    /\ UNCHANGED <<archive, shared, rows, cells, cur_col, ref, global_max_col,
                   placed, sheetCols, rowLog, nCells>>

\* shared = _parse_shared_strings(zf)
ParseSharedStrings ==
    /\ UNCHANGED xvars
    /\ stage = "shared"
    /\ order' = Append(order, "shared")
    /\ IF archive.sst = "malformed"
       THEN Raise("ParseError:sharedStrings") /\ UNCHANGED shared
       ELSE /\ shared' = _parse_shared_strings(archive)
            /\ stage' = StepAfter("shared")
            /\ UNCHANGED error
    /\ UNCHANGED <<archive, rows, cells, cur_col, ref, global_max_col,
                   placed, sheetCols, rowLog, nCells>>

\* sheet_path = _first_sheet_path(zf)
FirstSheetPath ==
    /\ UNCHANGED xvars
    /\ stage = "path"
    /\ order' = Append(order, "path")
    /\ IF archive.workbook = "nosheet" THEN Raise("RuntimeError:nosheet")
       ELSE IF archive.workbook = "norel" THEN Raise("RuntimeError:rels")
       ELSE stage' = StepAfter("path") /\ UNCHANGED error
    /\ UNCHANGED <<archive, shared, rows, cells, cur_col, ref, global_max_col,
                   placed, sheetCols, rowLog, nCells>>

\* root = ET.fromstring(zf.read(sheet_path)); rows = []; global_max_col = 0
ReadSheet ==
    /\ UNCHANGED xvars
    /\ stage = "sheet"
    /\ order' = Append(order, "sheet")
    /\ IF archive.sheet = "missing"
       THEN Raise("KeyError:sheet")
       ELSE stage' = StepAfter("sheet") /\ UNCHANGED error
    /\ rows' = <<>>
    /\ global_max_col' = 0
    /\ UNCHANGED <<archive, shared, cells, cur_col, ref, placed, sheetCols, rowLog, nCells>>

\* for row_el in ...: cells = {}; cur_col = 0
BeginRow ==
    /\ UNCHANGED xvars
    /\ stage = "scan"
    /\ Len(rowLog) < MaxRows
    /\ stage' = "row"
    /\ cells' = EmptyCells
    /\ cur_col' = 0
    /\ placed' = <<>>
    /\ UNCHANGED <<archive, error, shared, rows, ref, global_max_col, sheetCols,
                   rowLog, order, nCells>>

\* the body of "for c in row_el.findall(...)" for one cell element c
Cell(c) ==
    /\ UNCHANGED xvars
    /\ stage = "row"
    /\ nCells < MaxCells
    /\ nCells' = nCells + 1
    /\ ref' = c.r
    /\ LET col_idx == CursorFor(c.r, cur_col)
       IN  IF SharedCellRaises(c)
           THEN /\ Raise("ValueError:int")
                /\ cur_col' = NextCursor(col_idx)
                /\ UNCHANGED <<cells, global_max_col, placed, sheetCols>>
           ELSE LET value == CellValue(c, shared)
                IN  /\ cur_col' = NextCursor(col_idx)
                    /\ cells' = [i \in DOMAIN cells \cup {col_idx} |->
                                    IF i = col_idx THEN value ELSE cells[i]]
                    /\ global_max_col' = Max(global_max_col, col_idx)
                    /\ placed' = Append(placed, [col |-> col_idx, value |-> value])
                    /\ sheetCols' = sheetCols \cup {col_idx}
                    /\ UNCHANGED <<stage, error>>
    /\ UNCHANGED <<archive, shared, rows, rowLog, order>>

\* row = [None] * (global_max_col + 1) with the cells written into it
BuildRow(cs, width) == [i \in 1..width |-> IF (i - 1) \in DOMAIN cs THEN cs[i - 1] ELSE None]

RowWidth(gmax) == gmax + 1

\* "if not cells and not rows: continue"
RowSkipped(cs, rs) == cs = EmptyCells /\ rs = <<>>

\* the end of one row element: lines 193-200
EndRow ==
    /\ UNCHANGED xvars
    /\ stage = "row"
    /\ stage' = "scan"
    /\ IF RowSkipped(cells, rows)
       THEN UNCHANGED rows
       ELSE rows' = Append(rows, BuildRow(cells, RowWidth(global_max_col)))
    /\ rowLog' = Append(rowLog,
                        [hasValue |-> \E i \in DOMAIN placed : placed[i].value # None,
                         kept     |-> ~RowSkipped(cells, rows)])
    /\ UNCHANGED <<archive, error, shared, cells, cur_col, ref, global_max_col,
                   placed, sheetCols, order, nCells>>

\* return rows
Return ==
    /\ UNCHANGED xvars
    /\ stage = "scan"
    /\ stage' = "returned"
    /\ UNCHANGED <<archive, error, shared, rows, cells, cur_col, ref, global_max_col,
                   placed, sheetCols, rowLog, order, nCells>>

Next ==
    \/ OpenContainer
    \/ ParseSharedStrings
    \/ FirstSheetPath
    \/ ReadSheet
    \/ BeginRow
    \/ \E c \in CellInputs : Cell(c)
    \/ EndRow
    \/ Return

Spec == Init /\ [][Next]_vars

\* ================================================================ clean_headers
MaxHeaders == 3

\* str(n) of an integer
RECURSIVE NatToStr(_)
NatToStr(n) == IF n < 10 THEN <<Digits[n + 1]>> ELSE NatToStr(n \div 10) \o <<Digits[(n % 10) + 1]>>

IntToStr(n) == IF n < 0 THEN <<"-">> \o NatToStr(0 - n) ELSE NatToStr(n)

EmptyDict == [k \in {} |-> 0]

\* dict[key] = value
DictSet(d, key, value) == [k \in DOMAIN d \cup {key} |-> IF k = key THEN value ELSE d[k]]

\* the count written one too low: the second occurrence gets "_1"
SuffixedFromOne(s, n) == s \o <<"_">> \o IntToStr(n - 1)

\* f"{s}_{seen[s]}"
Suffixed(s, n) == s \o <<"_">> \o IntToStr(n)

RECURSIVE CleanLoop(_, _, _)
CleanLoop(hs, seen, out) ==
    IF hs = <<>> THEN out
    ELSE LET h == Head(hs)
         IN  IF h = None THEN CleanLoop(Tail(hs), seen, Append(out, None))
             ELSE LET s == Strip(h)
                  IN  IF s = <<>> THEN CleanLoop(Tail(hs), seen, Append(out, None))
                      ELSE IF s \in DOMAIN seen
                      THEN CleanLoop(Tail(hs), DictSet(seen, s, seen[s] + 1),
                                     Append(out, Suffixed(s, seen[s] + 1)))
                      ELSE CleanLoop(Tail(hs), DictSet(seen, s, 1), Append(out, s))

clean_headers(hs) == CleanLoop(hs, EmptyDict, <<>>)

HeaderInputs == {None, <<" ">>, <<"X">>, <<"X"," ">>, <<"X","_","2">>, <<"Y">>}

HeaderLists == UNION {[1..n -> HeaderInputs] : n \in 0..MaxHeaders}

ReaderIdle ==
    /\ stage = "idle"
    /\ archive = [zip |-> "ok", sst |-> "absent", workbook |-> "ok", sheet |-> "ok"]
    /\ error = "none"
    /\ shared = <<>>
    /\ rows = <<>>
    /\ cells = EmptyCells
    /\ cur_col = 0
    /\ ref = None
    /\ global_max_col = 0
    /\ placed = <<>>
    /\ sheetCols = {}
    /\ rowLog = <<>>
    /\ order = <<>>
    /\ nCells = 0

InitHeaders ==
    /\ ReaderIdle
    /\ call = "clean_headers"
    /\ headers \in HeaderLists
    /\ cleaned = <<>>
    /\ matrix = <<>>
    /\ dataset = NoDataset
    /\ drawRows = <<>>

CallCleanHeaders ==
    /\ call = "clean_headers"
    /\ call' = "clean_headers:returned"
    /\ cleaned' = clean_headers(headers)
    /\ UNCHANGED <<rvars, headers, matrix, dataset, drawRows>>

NextHeaders == CallCleanHeaders

SpecHeaders == InitHeaders /\ [][NextHeaders]_vars

\* ---------------------------------------------------------------- clean_headers: properties
Blank(v) == v = None \/ \A i \in DOMAIN v : v[i] \in Whitespace

\* how many of headers[1..i] are non-blank and trim to the same name as headers[i]
Occurrence(i) ==
    Cardinality({j \in 1..i : ~Blank(headers[j]) /\ Strip(headers[j]) = Strip(headers[i])})

\* C4: the output has the length of the input; a blank or absent header becomes
\* absent, the first occurrence of a trimmed name s stays s and its k-th
\* occurrence (k >= 2) becomes s_k, blank headers not counting.
C4_SuffixByOccurrence ==
    call = "clean_headers:returned" =>
        /\ Len(cleaned) = Len(headers)
        /\ \A i \in DOMAIN headers :
              cleaned[i] =
                 IF Blank(headers[i]) THEN None
                 ELSE IF Occurrence(i) = 1 THEN Strip(headers[i])
                 ELSE Strip(headers[i]) \o <<"_", Digits[Occurrence(i) + 1]>>

C4_Witness ==
    /\ call = "clean_headers:returned"
    /\ headers = <<<<"X">>, <<"X"," ">>, <<"X">>>>
    /\ cleaned = <<<<"X">>, <<"X","_","2">>, <<"X","_","3">>>>

\* C10 (as stated): the names of the output that are not absent are pairwise
\* distinct.
C10_NamesDistinct ==
    call = "clean_headers:returned" =>
        \A i, j \in DOMAIN cleaned :
            (i < j /\ cleaned[i] # None /\ cleaned[j] # None) => cleaned[i] # cleaned[j]

\* ---------------------------------------------------------------- the texts of the code and of the inputs
BOLA == <<"b","o","l","a">>
TREVO == <<"t","r","e","v","o">>
COLUNA == <<"c","o","l","u","n","a">>
KEY_NUMBERS == <<"_","_","n","u","m","b","e","r","s">>
CONCURSO == <<"C","o","n","c","u","r","s","o">>
DATA_DO_SORTEIO == <<"D","a","t","a"," ","d","o"," ","S","o","r","t","e","i","o">>
DATA_DE_SORTEIO == <<"D","a","t","a"," ","d","e"," ","S","o","r","t","e","i","o">>
DATA_DE_APURACAO == <<"D","a","t","a"," ","d","e"," ","a","p","u","r","a","ç","ã","o">>
BOLA1 == <<"B","o","l","a","1">>
BOLA_2 == <<"b","o","l","a"," ","2">>
TREVO1 == <<"T","r","e","v","o","1">>
COLUNA1 == <<"C","o","l","u","n","a"," ","1">>

\* ================================================================ parse_xlsx_dataset
MaxDataRows == 2

\* to_int of a str (or None): the stripped text must be decimal digits only
ToIntOk(v) == v # None /\ AllDigits(Strip(v))
ToIntValue(v) == DigitsToNat(Strip(v))

\* extract_number_columns: ^Bola\s*\d+$, ^Trevo\s*\d+$, ^Coluna\s*\d+$, ignoring case
Families == {BOLA, TREVO, COLUNA}

IsNumberHeader(hs) ==
    \E fam \in Families :
        /\ Len(hs) > Len(fam)
        /\ Lower(SubSeq(hs, 1, Len(fam))) = fam
        /\ AllDigits(LStrip(SubSeq(hs, Len(fam) + 1, Len(hs))))

RECURSIVE extract_number_columns(_)
extract_number_columns(hs) ==
    IF hs = <<>> THEN <<>>
    ELSE LET h == Head(hs)
             rest == extract_number_columns(Tail(hs))
         IN  IF h = None \/ h = <<>> THEN rest
             ELSE IF IsNumberHeader(Strip(h)) THEN <<Strip(h)>> \o rest
             ELSE rest

\* "corta colunas finais vazias": header_raw[: last + 1]
RECURSIVE LastNonBlank(_, _, _)
LastNonBlank(header_raw, i, last) ==
    IF i > Len(header_raw) THEN last
    ELSE LastNonBlank(header_raw, i + 1,
                      IF header_raw[i] # None /\ Strip(header_raw[i]) # <<>> THEN i - 1 ELSE last)

CutHeader(header_raw) == SubSeq(header_raw, 1, LastNonBlank(header_raw, 1, 0) + 1)

\* row[: n]
Truncate(row, n) == SubSeq(row, 1, IF Len(row) < n THEN Len(row) ELSE n)

\* A value of a record: a str, or the list of int under "__numbers".
PyStr(chars) == [ty |-> "str", s |-> chars]
PyIntList(xs) == [ty |-> "list", xs |-> xs]

\* only a row that is blank in every column is passed over
RowPassedOverIfAllBlank(row) ==
    row = <<>> \/ \A i \in DOMAIN row : row[i] = None \/ Strip(row[i]) = <<>>

\* the two "continue" tests of lines 228-233
RowPassedOver(row) ==
    \/ row = <<>> \/ \A i \in DOMAIN row : row[i] = None \/ Strip(row[i]) = <<>>
    \/ row[1] = None \/ Strip(row[1]) = <<>>

\* for h, v in zip(headers, row): rec[h] = s
RECURSIVE RecLoop(_, _, _, _)
RecLoop(hs, row, i, rec) ==
    IF i > Len(hs) \/ i > Len(row) THEN rec
    ELSE IF hs[i] = None \/ hs[i] = <<>> THEN RecLoop(hs, row, i + 1, rec)
    ELSE IF row[i] = None THEN RecLoop(hs, row, i + 1, rec)
    ELSE IF Strip(row[i]) = <<>> THEN RecLoop(hs, row, i + 1, rec)
    ELSE RecLoop(hs, row, i + 1, DictSet(rec, hs[i], PyStr(Strip(row[i]))))

\* rec.get(key) of a text column
GetText(rec, key) == IF key \in DOMAIN rec THEN rec[key].s ELSE None

\* for col in num_cols: n = to_int(rec.get(col)) ...
RECURSIVE NumsLoop(_, _)
NumsLoop(num_cols, rec) ==
    IF num_cols = <<>> THEN <<>>
    ELSE LET v == GetText(rec, Head(num_cols))
         IN  (IF ToIntOk(v) THEN <<ToIntValue(v)>> ELSE <<>>) \o NumsLoop(Tail(num_cols), rec)

\* one record: lines 235-254
BuildRecord(hs, num_cols, row) ==
    LET rec  == RecLoop(hs, row, 1, EmptyDict)
        nums == NumsLoop(num_cols, rec)
    IN  IF nums # <<>> THEN DictSet(rec, KEY_NUMBERS, PyIntList(nums)) ELSE rec

\* for row in matrix[1:] ...: the records, each with the index of its matrix row
RECURSIVE DrawsLoop(_, _, _, _)
DrawsLoop(m, i, hs, num_cols) ==
    IF i > Len(m) THEN <<>>
    ELSE LET row == Truncate(m[i], Len(hs))
         IN  IF RowPassedOver(row) THEN DrawsLoop(m, i + 1, hs, num_cols)
             ELSE <<[row |-> i, rec |-> BuildRecord(hs, num_cols, row)]>>
                      \o DrawsLoop(m, i + 1, hs, num_cols)

\* d.get("__numbers", []) as the sequence "for n in ..." walks: the int of a list,
\* the characters of a str
NumberItems(d) ==
    IF KEY_NUMBERS \notin DOMAIN d THEN <<>>
    ELSE IF d[KEY_NUMBERS].ty = "list"
    THEN [i \in DOMAIN d[KEY_NUMBERS].xs |-> [ty |-> "int", n |-> d[KEY_NUMBERS].xs[i], s |-> <<>>]]
    ELSE [i \in DOMAIN d[KEY_NUMBERS].s |-> [ty |-> "chr", n |-> 0, s |-> <<d[KEY_NUMBERS].s[i]>>]]

\* str(n)
ItemKey(item) == IF item.ty = "int" THEN IntToStr(item.n) ELSE item.s

RECURSIVE CountItems(_, _)
CountItems(items, st) ==
    IF items = <<>> THEN st
    ELSE LET k == ItemKey(Head(items))
         IN  CountItems(Tail(items),
                 [counts     |-> DictSet(st.counts, k,
                                         (IF k \in DOMAIN st.counts THEN st.counts[k] ELSE 0) + 1),
                  total_nums |-> st.total_nums + 1])

RECURSIVE StatsLoop(_, _)
StatsLoop(draws, st) ==
    IF draws = <<>> THEN st
    ELSE StatsLoop(Tail(draws), CountItems(NumberItems(Head(draws)), st))

\* last_draw.get(key): the text, or None
GetOrNone(d, key) == IF key \in DOMAIN d /\ d[key].ty = "str" THEN d[key].s ELSE None

Or(a, b) == IF a # None THEN a ELSE b

parse_xlsx_dataset(m) ==
    LET hs       == clean_headers(CutHeader(m[1]))
        num_cols == extract_number_columns(hs)
        built    == DrawsLoop(m, 2, hs, num_cols)
        draws    == [i \in DOMAIN built |-> built[i].rec]
        st       == StatsLoop(draws, [counts |-> EmptyDict, total_nums |-> 0])
        last_draw == IF draws # <<>> THEN draws[Len(draws)] ELSE EmptyDict
    IN  [dataset |->
            [meta  |-> [rows |-> Len(draws), number_columns |-> num_cols],
             stats |-> [total_numbers |-> st.total_nums, number_counts |-> st.counts],
             last  |-> [Concurso |-> GetOrNone(last_draw, CONCURSO),
                        DataDoSorteio |-> Or(GetOrNone(last_draw, DATA_DO_SORTEIO),
                                            Or(GetOrNone(last_draw, DATA_DE_SORTEIO),
                                               GetOrNone(last_draw, DATA_DE_APURACAO)))],
             draws |-> draws],
         rows |-> [i \in DOMAIN built |-> built[i].row]]

\* The matrices: a header row, then data rows of three columns. A row of the
\* matrix is never empty, and never shorter than a row above it.
HeaderRows ==
    {<<CONCURSO, BOLA1, BOLA_2>>,
     <<CONCURSO, KEY_NUMBERS, TREVO1>>,
     <<CONCURSO, BOLA1, <<" ">>>>,
     <<None, BOLA1, BOLA1>>,
     <<COLUNA1>>,
     <<None>>}

FirstColumn == {None, <<" ">>, <<"1">>}
SecondColumn == {None, <<"5">>, <<"0","5">>, <<"x","5">>}
ThirdColumn == {None, <<"5">>}

DataRows == {<<a, b, c>> : a \in FirstColumn, b \in SecondColumn, c \in ThirdColumn}

Matrices ==
    {<<>>} \cup
    {<<h>> \o d : h \in HeaderRows, d \in UNION {[1..n -> DataRows] : n \in 0..MaxDataRows}}

InitDataset ==
    /\ ReaderIdle
    /\ call = "parse_xlsx_dataset"
    /\ matrix \in Matrices
    /\ dataset = NoDataset
    /\ drawRows = <<>>
    /\ headers = <<>>
    /\ cleaned = <<>>

\* matrix = read_first_sheet_rows(...); if not matrix: raise ...; return dataset
CallParseXlsxDataset ==
    /\ call = "parse_xlsx_dataset"
    /\ IF matrix = <<>>
       THEN /\ call' = "parse_xlsx_dataset:raised"
            /\ UNCHANGED <<dataset, drawRows>>
       ELSE LET result == parse_xlsx_dataset(matrix)
            IN  /\ call' = "parse_xlsx_dataset:returned"
                /\ dataset' = result.dataset
                /\ drawRows' = result.rows
    /\ UNCHANGED <<rvars, headers, cleaned, matrix>>

NextDataset == CallParseXlsxDataset

SpecDataset == InitDataset /\ [][NextDataset]_vars

\* ---------------------------------------------------------------- parse_xlsx_dataset: properties
Returned == call = "parse_xlsx_dataset:returned"

\* the data rows (matrix rows 2..) whose first column is not blank
DataRowsWithId == {i \in 2..Len(matrix) : ~Blank(matrix[i][1])}

\* C5: a data row gives a record in draws exactly if its first column is not
\* blank after trimming; the records come in the order of their rows, one per
\* row, and meta.rows is the number of such rows.
C5_RecordIffFirstColumn ==
    Returned =>
        /\ {drawRows[k] : k \in DOMAIN drawRows} = DataRowsWithId
        /\ \A k \in 1..(Len(drawRows) - 1) : drawRows[k] < drawRows[k + 1]
        /\ Len(dataset.draws) = Len(drawRows)
        /\ dataset.meta.rows = Cardinality(DataRowsWithId)

C5_Witness ==
    /\ Returned
    /\ Len(matrix) = 3
    /\ matrix[2] = <<<<" ">>, <<"5">>, <<"5">>>>
    /\ matrix[3][1] = <<"1">>
    /\ drawRows = <<3>>
    /\ dataset.meta.rows = 1

\* the integers that can come out of the cells of DataRows
CellNumbers == 0..9

RECURSIVE SumOver(_, _)
SumOver(f, S) ==
    IF S = {} THEN 0 ELSE LET x == CHOOSE x \in S : TRUE IN f[x] + SumOver(f, S \ {x})

\* how often the integer v is an element of the __numbers of the records
TimesInNumbers(v) ==
    LET perDraw == [k \in DOMAIN dataset.draws |->
                       Cardinality({i \in DOMAIN NumberItems(dataset.draws[k]) :
                                       /\ NumberItems(dataset.draws[k])[i].ty = "int"
                                       /\ NumberItems(dataset.draws[k])[i].n = v})]
    IN  SumOver(perDraw, DOMAIN perDraw)

NumbersLengths ==
    LET perDraw == [k \in DOMAIN dataset.draws |-> Len(NumberItems(dataset.draws[k]))]
    IN  SumOver(perDraw, DOMAIN perDraw)

\* C6 (as stated): number_counts maps the decimal text of every integer v to the
\* number of times v occurs in the __numbers of the records, with no other key
\* and no key of count 0; total_numbers is the sum of the counts and the sum of
\* the lengths of the __numbers.
C6_CountsMatchNumbers ==
    Returned =>
        LET counts == dataset.stats.number_counts
        IN  /\ \A v \in CellNumbers :
                  IF TimesInNumbers(v) = 0 THEN NatToStr(v) \notin DOMAIN counts
                  ELSE NatToStr(v) \in DOMAIN counts /\ counts[NatToStr(v)] = TimesInNumbers(v)
            /\ \A k \in DOMAIN counts : \E v \in CellNumbers : k = NatToStr(v)
            /\ dataset.stats.total_numbers = SumOver(counts, DOMAIN counts)
            /\ dataset.stats.total_numbers = NumbersLengths

\* ================================================================ read_first_sheet_rows: properties
SetMax(S) == CHOOSE m \in S : \A x \in S : x <= m

IsPrefix(p, q) == Len(p) <= Len(q) /\ \A i \in DOMAIN p : p[i] = q[i]

Scanned == stage \in {"row", "scan", "returned"}

\* The references of RefInputs that are capital letters followed by a digit, with
\* their zero-based columns written out.
WellFormedRefs == {<<"A","7">>, <<"B","1">>, <<"A","B","3">>}

WrittenColumn(r) ==
    CASE r = <<"A","7">> -> 0
      [] r \in {<<"B","1">>, <<"b","1">>} -> 1
      [] r = <<"C">> -> 2
      [] r = <<"A","B","3">> -> 27

\* the last value written at column k by the cells of the current row element
LastPlaced(k) ==
    LET hits == {i \in DOMAIN placed : placed[i].col = k}
    IN  IF hits = {} THEN None ELSE placed[SetMax(hits)].value

\* a row element has been finished and its row appended
RowAppended == stage \in {"scan", "returned"} /\ rowLog # <<>> /\ rowLog[Len(rowLog)].kept

LastRowIsLastWrites ==
    RowAppended =>
        LET row == rows[Len(rows)]
        IN  \A k \in 0..(Len(row) - 1) : row[k + 1] = LastPlaced(k)

\* C1 (as stated): every row of the returned matrix has the same length, 1 + the
\* largest column index of any cell of the whole sheet, later rows included.
C1_UniformWidth ==
    stage = "returned" =>
        \A i \in DOMAIN rows : Len(rows[i]) = 1 + SetMax(sheetCols)

\* C2 (as stated): a cell tagged as a shared-string reference whose value text is
\* not an index into the shared strings (not an integer, or out of range) does not
\* raise, and its value is the raw text of its value node.
ValidIndex(text, sh) == AllDigits(text) /\ DigitsToNat(text) < Len(sh)

C2_BadSharedIndexIsRawText ==
    [][\A c \in CellInputs :
          (Cell(c) /\ c.t = <<"s">> /\ c.v \notin {NoNode, None} /\ ~ValidIndex(c.v, shared))
              => (stage' = "row" /\ placed' # <<>> /\ placed'[Len(placed')].value = c.v)]_vars

\* C3 (as stated): the stages run in the order open, first-sheet path, shared
\* strings, sheet; an archive with an unresolvable first sheet and a malformed
\* shared-string part fails with the relationship-resolution error.
BothBroken == archive.zip = "ok" /\ archive.sst = "malformed" /\ archive.workbook # "ok"

C3_PathBeforeShared ==
    /\ IsPrefix(order, <<"open", "path", "shared", "sheet">>)
    /\ (stage = "raised" /\ BothBroken) => error \in {"RuntimeError:nosheet", "RuntimeError:rels"}

\* C3 (amended): the stages run in the order open, shared strings, first-sheet
\* path, sheet; an archive with an unresolvable first sheet and a malformed
\* shared-string part fails with the shared-string parse error.
C3_SharedBeforePath ==
    /\ IsPrefix(order, <<"open", "shared", "path", "sheet">>)
    /\ (stage = "raised" /\ BothBroken) => error = "ParseError:sharedStrings"

C3_Witness ==
    /\ stage = "raised"
    /\ BothBroken
    /\ archive.workbook = "norel"
    /\ order = <<"open", "shared">>

\* C7 (as stated): a row in which no cell holds a value is dropped while no row
\* has contributed data yet; after a row with data every row is appended; so row 0
\* of a non-empty matrix contains data.
C7_LeadingEmptyRowsDropped ==
    /\ \A i \in DOMAIN rowLog :
          IF \E j \in 1..i : rowLog[j].hasValue
          THEN (\E j \in 1..(i - 1) : rowLog[j].hasValue) => rowLog[i].kept
          ELSE ~rowLog[i].kept
    /\ rows # <<>> => \E k \in DOMAIN rows[1] : rows[1][k] # None

\* C8 (as stated): within a row the column indices of the cells, in document
\* order, are non-decreasing.
C8_ColumnsNonDecreasing ==
    \A i \in 2..Len(placed) : placed[i].col >= placed[i - 1].col

\* C8 (amended): a cell without a well-formed reference gets the column index of
\* the cell before it in the row plus one (only a cell with a well-formed
\* reference can get a lower one).
C8_CursorCellsAdvance ==
    (Scanned /\ Len(placed) >= 2 /\ ref \notin WellFormedRefs) =>
        placed[Len(placed)].col = placed[Len(placed) - 1].col + 1

C8_Witness ==
    /\ stage = "row"
    /\ Len(placed) = 2
    /\ ref = None
    /\ placed[1].col = 1
    /\ placed[2].col = 2

\* C9 (as stated): the cursor starts at 0 in every row; a cell that carries a
\* reference attribute is placed at the column its letters decode to, a cell
\* without one at 1 + the column of the cell before it (0 for the first); the
\* row holds at each column the value of the last cell placed there.
C9_EveryRefDecoded ==
    /\ (Scanned /\ placed # <<>>) =>
          LET n == Len(placed)
          IN  placed[n].col =
                 IF ref \notin {None, <<>>} THEN WrittenColumn(ref)
                 ELSE IF n = 1 THEN 0 ELSE placed[n - 1].col + 1
    /\ LastRowIsLastWrites

\* C9 (amended): the cursor starts at 0 in every row; a cell whose reference is
\* capital letters followed by a digit is placed at the column the letters decode
\* to, every other cell (no reference, an empty one, one of another form) at
\* 1 + the column of the cell before it (0 for the first); the row holds at each
\* column the value of the last cell placed there.
C9_WellFormedRefDecoded ==
    /\ (Scanned /\ placed # <<>>) =>
          LET n == Len(placed)
          IN  placed[n].col =
                 IF ref \in WellFormedRefs THEN WrittenColumn(ref)
                 ELSE IF n = 1 THEN 0 ELSE placed[n - 1].col + 1
    /\ LastRowIsLastWrites

C9_Witness ==
    /\ RowAppended
    /\ Len(rowLog) = 2
    /\ ref = <<"A","B","3">>
    /\ Len(placed) = 2
    /\ placed[1].col = 27 /\ placed[2].col = 27
    /\ placed[1].value = None /\ placed[2].value = <<"7">>
    /\ rows[Len(rows)][28] = <<"7">>

====
